---------------------------- MODULE Spec2Model ----------------------------
(***************************************************************************)
(* A model of ms2deepscore/data_generators.py: DataGenerator_all_inchikeys *)
(* (the Keras Sequence that builds training batches for the siamese model).*)
(*                                                                         *)
(* Conventions.                                                            *)
(*  - Python lists and numpy arrays are TLA+ sequences; a 0-based Python   *)
(*    position p is element p+1 of the sequence (operator At).             *)
(*  - Similarity scores are held in tenths: 7 stands for 0.7, 10 for 1.0.  *)
(*    NaN stands for numpy's not-a-number.                                 *)
(*  - extend_range is held as the number k of "+= 0.1" steps done so far.  *)
(*    In binary floating point the four values are 0, 0.1, 0.2 and         *)
(*    0.30000000000000004, and the fifth is exactly 0.4, which ends the    *)
(*    loop.  The only comparison on the tenths grid that the rounding      *)
(*    changes is 0.2 > 0.5 - 0.30000000000000004 (true in floating point). *)
(*  - Intensities of a binned spectrum are held in hundredths.             *)
(***************************************************************************)
EXTENDS Integers, Sequences, FiniteSets

VARIABLES
    heap,                \* ndarray objects: reference -> matrix contents
    passed,              \* ghost: contents of the score_array argument when __init__ was called
    score_array,         \* self.score_array: a reference into heap ("none" before __init__)
    list_IDs,            \* self.list_IDs
    batch_size,          \* self.batch_size
    num_turns,           \* self.num_turns
    shuffle,             \* self.shuffle
    ignore_equal_pairs,  \* self.ignore_equal_pairs
    indexes,             \* self.indexes
    phase,               \* "new" before __init__ has run, "ready" after
    ret,                 \* what the last __getitem__ call did, until the caller drops it
    augment_peak_removal,\* self.augment_peak_removal
    augment_intensity,   \* self.augment_intensity, in tenths
    document_dict,       \* the argument of __data_augmentation: a sequence of (bin, intensity)
    augmented            \* what the last __data_augmentation call returned, until dropped

genVars == <<heap, passed, score_array, list_IDs, batch_size, num_turns, shuffle,
             ignore_equal_pairs, indexes, phase, ret>>

augVars == <<augment_peak_removal, augment_intensity, document_dict, augmented>>

vars == <<genVars, augVars>>

----------------------------------------------------------------------------
(* Bounds of the model *)

NumIDs == 3
MaxLen == 3
MaxBatch == 2
MaxTurns == 2
MaxSeq == 6
Dim == 3

(* Values of the program *)

NaN == -1

IDs == 0 .. (NumIDs - 1)

\* Scores (tenths) the input matrices are drawn from.  Between them the loop
\* ends at each of its four attempts and in the fallback, for either band:
\* band (0, 0.5] takes 1, 2 and 4 at once, 0 at the second attempt and never 10;
\* band (0.5, 1] takes 10 at once, 4 at the third attempt, 2 at the fourth (by
\* the rounding of 0.5 - 0.30000000000000004) and never 0 or 1.
Scores == {0, 1, 2, 4, 10}

same_prob_bins == << [low |-> 0, high |-> 5], [low |-> 5, high |-> 10] >>

----------------------------------------------------------------------------
(* Python and numpy helpers *)

At(s, p) == s[p + 1]

Min(a, b) == IF a < b THEN a ELSE b

Max(a, b) == IF a > b THEN a ELSE b

\* The bound of a Python slice: negative values count from the end, and both
\* ends are clipped to the sequence.
SliceBound(len, b) == IF b < 0 THEN Max(len + b, 0) ELSE Min(b, len)

\* The 0-based offsets that s[start:stop] reads.
SliceOffsets(len, start, stop) ==
    { o \in 0 .. (len - 1) : SliceBound(len, start) <= o /\ o < SliceBound(len, stop) }

\* s[start:stop]
PySlice(s, start, stop) ==
    LET a == SliceBound(Len(s), start)
        b == SliceBound(Len(s), stop)
    IN  IF a < b THEN SubSeq(s, a + 1, b) ELSE << >>

\* A faulty Tile: num_turns forgotten, np.arange(n) alone
TileOnce(n, t) == [ i \in 1 .. n |-> i - 1 ]

\* np.tile(np.arange(n), t)
Tile(n, t) == [ i \in 1 .. (n * t) |-> (i - 1) % n ]

Count(s, x) == Cardinality({ i \in 1 .. Len(s) : s[i] = x })

\* The arrangements of the values of which left[v] copies remain to be placed.
RECURSIVE Arrangements(_)
Arrangements(left) ==
    IF \A v \in DOMAIN left : left[v] = 0 THEN { << >> }
    ELSE UNION { { << v >> \o rest : rest \in Arrangements([left EXCEPT ![v] = @ - 1]) }
                 : v \in { u \in DOMAIN left : left[u] > 0 } }

\* The orders np.random.shuffle can leave the array s in.
Shuffles(s) == Arrangements([ v \in { s[i] : i \in 1 .. Len(s) } |-> Count(s, v) ])

\* score_array[np.isnan(score_array)] = 0
NanToZero(m) == [ i \in DOMAIN m |-> [ j \in DOMAIN m[i] |-> IF m[i][j] = NaN THEN 0 ELSE m[i][j] ] ]

----------------------------------------------------------------------------
(* __len__ *)

\* A faulty BatchCount: np.ceil in place of np.floor
BatchCountCeil == num_turns * ((Len(list_IDs) + batch_size - 1) \div batch_size)

BatchCount == num_turns * (Len(list_IDs) \div batch_size)

----------------------------------------------------------------------------
(* The pair sampler of __getitem__ *)

Score(i, j) == heap[score_array][i][j]

\* score > prob_bins[0] - extend_range, as binary floating point decides it
AboveLow(s, low, k) == IF low = 5 /\ k = 3 THEN s >= 2 ELSE s > low - k

\* score <= prob_bins[1] + extend_range
UpToHigh(s, high, k) == s <= high + k

\* np.where(...)[0]: the positions of list_IDs whose score lies in the widened band
Where(ID1, bin, k) ==
    { p \in 0 .. (Len(list_IDs) - 1) :
        /\ AboveLow(Score(ID1, At(list_IDs, p)), bin.low, k)
        /\ UpToHigh(Score(ID1, At(list_IDs, p)), bin.high, k) }

\* idx = idx[idx != ID1]
DropEqual(idx, ID1) == { p \in idx : p # ID1 }

Candidates(ID1, bin, k) ==
    IF ignore_equal_pairs THEN DropEqual(Where(ID1, bin, k), ID1) ELSE Where(ID1, bin, k)

\* A faulty LoopGuard: extend_range <= 0.4
LoopGuardLate(k) == k <= 4

\* extend_range < 0.4
LoopGuard(k) == k < 4

\* The while loop: the candidate set it ends with and the number of times it
\* evaluated one.
RECURSIVE WidenLoop(_, _, _)
WidenLoop(ID1, bin, k) ==
    LET idx == Candidates(ID1, bin, k)
    IN  IF idx # {} THEN [idx |-> idx, attempts |-> k + 1]
        ELSE IF LoopGuard(k + 1) THEN WidenLoop(ID1, bin, k + 1)
        ELSE [idx |-> {}, attempts |-> k + 1]

\* [x for x in self.list_IDs if x != ID1]
Others(ID1) == SelectSeq(list_IDs, LAMBDA x : x # ID1)

\* .argmax(): the first position of the largest score
ArgMax(ID1, others) ==
    CHOOSE p \in 0 .. (Len(others) - 1) :
        /\ \A q \in 0 .. (Len(others) - 1) : Score(ID1, At(others, q)) <= Score(ID1, At(others, p))
        /\ \A q \in 0 .. (p - 1) : Score(ID1, At(others, q)) < Score(ID1, At(others, p))

\* if second_highest_id > ID1: second_highest_id += 1
Shift(pos, ID1) == IF pos > ID1 THEN pos + 1 ELSE pos

\* The label of a pair: y[i] = score_array[ID1, ID2], a fresh value of [0, 1)
\* when that is not-a-number.
Labels(ID1, ID2) == IF Score(ID1, ID2) = NaN THEN 0 .. 9 ELSE { Score(ID1, ID2) }

Picked(pos, ID1, ID2, b, attempts, fb) ==
    { [pos |-> pos, ID1 |-> ID1, ID2 |-> ID2, bin |-> b, attempts |-> attempts,
       fallback |-> fb, raised |-> FALSE, y |-> y] : y \in Labels(ID1, ID2) }

\* One pass of the for loop of __getitem__ for the entry pos of self.indexes:
\* every outcome the random draws allow.  Indexing score_array with the empty
\* (float) array of the fallback raises.
Sample(pos) ==
    LET ID1 == At(list_IDs, pos)
    IN  UNION { LET w == WidenLoop(ID1, same_prob_bins[b], 0)
                IN  IF w.idx # {}
                    THEN UNION { Picked(pos, ID1, At(list_IDs, p), b, w.attempts, FALSE) : p \in w.idx }
                    ELSE IF Others(ID1) = << >>
                    THEN { [pos |-> pos, ID1 |-> ID1, ID2 |-> ID1, bin |-> b, attempts |-> w.attempts,
                            fallback |-> TRUE, raised |-> TRUE, y |-> 0] }
                    ELSE Picked(pos, ID1, At(list_IDs, Shift(ArgMax(ID1, Others(ID1)), ID1)),
                                b, w.attempts, TRUE)
              : b \in 1 .. Len(same_prob_bins) }

\* The for loop over the slice: the sequences of outcomes; an exception ends it.
RECURSIVE Samples(_)
Samples(slice) ==
    IF slice = << >> THEN { << >> }
    ELSE UNION { IF o.raised THEN { << o >> }
                 ELSE { << o >> \o rest : rest \in Samples(Tail(slice)) }
               : o \in Sample(Head(slice)) }

----------------------------------------------------------------------------
(* Operations *)

NoRet == [kind |-> "none", index |-> 0, offsets |-> {}, samples |-> << >>]

\* The body of on_epoch_end: the values self.indexes can be given.
EpochIndexes ==
    IF shuffle THEN Shuffles(Tile(Len(list_IDs), num_turns))
    ELSE { Tile(Len(list_IDs), num_turns) }

\* __init__: binds the arguments, calls on_epoch_end, then sets the
\* not-a-number entries of self.score_array to 0.
Construct ==
    /\ phase = "new"
    /\ score_array' = "arg"
    /\ indexes' \in EpochIndexes
    /\ heap' = [heap EXCEPT !["arg"] = NanToZero(heap["arg"])]
    /\ phase' = "ready"
    /\ UNCHANGED <<passed, list_IDs, batch_size, num_turns, shuffle, ignore_equal_pairs, ret>>
    /\ UNCHANGED augVars

\* __getitem__(index): the slice of self.indexes, one pair per entry, then
\* __data_generation, of which ret keeps each pair and its label y.  The two
\* feature tensors are not part of the state: a row of them is what
\* DataAugmentation returns for one spectrum of the pair, scattered into zeros.
\* inchikey_mapping and inchikeys_array are taken to name at least one
\* spectrum for every identity.
GetBatch(index) ==
    /\ phase = "ready"
    /\ ret = NoRet
    /\ \E ss \in Samples(PySlice(indexes, index * batch_size, (index + 1) * batch_size)) :
          ret' = [kind |-> IF ss # << >> /\ ss[Len(ss)].raised THEN "raised" ELSE "returned",
                  index |-> index,
                  offsets |-> SliceOffsets(Len(indexes), index * batch_size, (index + 1) * batch_size),
                  samples |-> ss]
    /\ UNCHANGED <<heap, passed, score_array, list_IDs, batch_size, num_turns, shuffle,
                   ignore_equal_pairs, indexes, phase>>
    /\ UNCHANGED augVars

\* on_epoch_end()
OnEpochEnd ==
    /\ phase = "ready"
    /\ ret = NoRet
    /\ indexes' \in EpochIndexes
    /\ UNCHANGED <<heap, passed, score_array, list_IDs, batch_size, num_turns, shuffle,
                   ignore_equal_pairs, phase, ret>>
    /\ UNCHANGED augVars

\* The caller is done with the batch (or the exception) the last __getitem__
\* handed it.
Drop ==
    /\ ret # NoRet
    /\ ret' = NoRet
    /\ UNCHANGED <<heap, passed, score_array, list_IDs, batch_size, num_turns, shuffle,
                   ignore_equal_pairs, indexes, phase>>
    /\ UNCHANGED augVars

----------------------------------------------------------------------------
(* __data_augmentation *)

NoAug == [kind |-> "none", size |-> 0, idx |-> << >>, values |-> << >>]

\* np.where(values < max_intensity)[0]
LowPositions(doc, max_intensity) == { p \in 0 .. (Len(doc) - 1) : At(doc, p).value < max_intensity }

\* np.where(values >= max_intensity)[0], in increasing order
RECURSIVE HighPositions(_, _, _)
HighPositions(doc, max_intensity, p) ==
    IF p >= Len(doc) THEN << >>
    ELSE (IF At(doc, p).value >= max_intensity THEN << p >> ELSE << >>)
         \o HighPositions(doc, max_intensity, p + 1)

\* int(np.ceil((1 - removal_part) * n)) for removal_part = np.random.random(1) * max_removal:
\* removal_part is any value of [0, max_removal) (0 when max_removal is 0); max_removal in tenths.
Sizes(n, max_removal) == { z \in 0 .. n : z = n \/ 10 * z > n * (10 - max_removal) }

\* np.random.choice(a, size): size draws from a, with replacement
Choice(a, size) == [1 .. size -> a]

\* 1 - augment_intensity * 2 * (U - 0.5) in hundredths, for a draw U of [0, 1) in tenths
Factor(a, U) == 100 - 2 * a * (U - 5)

\* The draws of np.random.random the model follows: 0, 0.5 and 0.9
Draws == {0, 5, 9}

\* The positions __data_augmentation keeps when peak removal is configured,
\* for a drawn size and a drawn choice
Kept(doc, chosen) == chosen \o HighPositions(doc, augment_peak_removal.max_intensity, 0)

\* idx[indices], values[indices]; values in units of 1e-4 once scaled
Take(doc, indices) == [ i \in 1 .. Len(indices) |-> At(doc, indices[i]) ]

Jitter(entries, U) ==
    [ i \in 1 .. Len(entries) |->
        [bin |-> entries[i].bin,
         value |-> IF augment_intensity # 0 THEN Factor(augment_intensity, U[i]) * entries[i].value
                   ELSE 100 * entries[i].value] ]

DataAugmentation ==
    /\ augmented = NoAug
    /\ \E size \in IF augment_peak_removal.on
                   THEN Sizes(Cardinality(LowPositions(document_dict, augment_peak_removal.max_intensity)),
                              augment_peak_removal.max_removal)
                   ELSE {0} :
       \E chosen \in Choice(IF augment_peak_removal.on
                            THEN LowPositions(document_dict, augment_peak_removal.max_intensity)
                            ELSE {}, size) :
          LET indices == Kept(document_dict, chosen)
              entries == IF augment_peak_removal.on /\ Len(indices) > 0
                         THEN Take(document_dict, indices)
                         ELSE document_dict
          IN  \E U \in [1 .. Len(entries) -> Draws] :
                 augmented' = [kind |-> "done", size |-> size,
                               idx |-> [ i \in 1 .. Len(entries) |-> entries[i].bin ],
                               values |-> [ i \in 1 .. Len(entries) |-> Jitter(entries, U)[i].value ]]
    /\ UNCHANGED <<augment_peak_removal, augment_intensity, document_dict>>
    /\ UNCHANGED genVars

\* The caller has scattered the result into the batch and dropped it.
DropAugmented ==
    /\ augmented # NoAug
    /\ augmented' = NoAug
    /\ UNCHANGED <<augment_peak_removal, augment_intensity, document_dict>>
    /\ UNCHANGED genVars

Next ==
    \/ Construct
    \/ \E index \in (-2) .. (BatchCount + 1) : GetBatch(index)
    \/ OnEpochEnd
    \/ Drop

----------------------------------------------------------------------------
(* Inputs *)

Abs(x) == IF x < 0 THEN -x ELSE x

\* Symmetric matrices with self-similarity 1 whose other entries depend on the
\* distance of the two identities.
Matrices(values) ==
    { [ i \in IDs |-> [ j \in IDs |-> IF i = j THEN 10 ELSE f[Abs(i - j)] ] ] :
        f \in [1 .. (NumIDs - 1) -> values] }

\* list(range(n))
Range(n) == [ i \in 1 .. n |-> i - 1 ]

Lists == UNION { [1 .. n -> IDs] : n \in 1 .. MaxLen }

\* augment_peak_removal = {"max_removal": 0.2, "max_intensity": 0.2}
DefaultPeakRemoval == [on |-> TRUE, max_removal |-> 2, max_intensity |-> 20]

InitWith(matrices, lists, sizes, turns, shuffles, ignores) ==
    /\ heap \in [ {"arg"} -> matrices ]
    /\ passed = heap["arg"]
    /\ score_array = "none"
    /\ list_IDs \in lists
    /\ batch_size \in sizes
    /\ num_turns \in turns
    /\ Len(list_IDs) * num_turns <= MaxSeq
    /\ shuffle \in shuffles
    /\ ignore_equal_pairs \in ignores
    /\ indexes = << >>
    /\ phase = "new"
    /\ ret = NoRet
    /\ augment_peak_removal = DefaultPeakRemoval
    /\ augment_intensity = 1
    /\ document_dict = << >>
    /\ augmented = NoAug

\* Any matrix (not-a-number entries included), the lists 0..n-1.
Init ==
    InitWith(Matrices(Scores \cup {NaN}), { Range(n) : n \in 1 .. Min(MaxLen, NumIDs) },
             {1}, {1}, BOOLEAN, BOOLEAN)

Spec == Init /\ [][Next]_vars

\* The scheduler: every batch size and number of turns, shuffled or not, over
\* one matrix (all pairs of distinct identities score 0.3).
InitSched ==
    InitWith(Matrices({3}), { Range(n) : n \in 1 .. Min(MaxLen, NumIDs) },
             1 .. MaxBatch, 1 .. MaxTurns, BOOLEAN, {TRUE})

SpecSched == InitSched /\ [][Next]_vars

\* The pair sampler: every list of identities (any order, any repetition) and
\* every matrix of the family, one anchor per batch.
InitPair ==
    InitWith(Matrices(Scores), Lists, {1}, {1}, {FALSE}, BOOLEAN)

SpecPair == InitPair /\ [][Next]_vars

\* __data_augmentation as a function of the spectrum and the configuration.
Intensities == {4, 20, 90}

\* The bins of b in increasing order
SortedBins(b) ==
    CHOOSE q \in [1 .. Cardinality(b) -> b] : \A i, j \in 1 .. Cardinality(b) : i < j => q[i] < q[j]

Documents ==
    { [ i \in 1 .. Cardinality(b) |-> [bin |-> SortedBins(b)[i], value |-> f[SortedBins(b)[i]]] ] :
        b \in SUBSET (0 .. (Dim - 1)), f \in [0 .. (Dim - 1) -> Intensities] }

PeakRemovals ==
    { [on |-> FALSE, max_removal |-> 0, max_intensity |-> 0] }
    \cup { [on |-> TRUE, max_removal |-> r, max_intensity |-> 20] : r \in {0, 2, 5} }

\* A constructed generator, and every spectrum and augmentation setting.
InitAug ==
    /\ heap = [ r \in {"arg"} |-> [ i \in IDs |-> [ j \in IDs |-> IF i = j THEN 10 ELSE 2 ] ] ]
    /\ passed = heap["arg"]
    /\ score_array = "arg"
    /\ list_IDs = Range(NumIDs)
    /\ batch_size = 1
    /\ num_turns = 1
    /\ shuffle = FALSE
    /\ ignore_equal_pairs = TRUE
    /\ indexes = Tile(NumIDs, 1)
    /\ phase = "ready"
    /\ ret = NoRet
    /\ augment_peak_removal \in PeakRemovals
    /\ augment_intensity \in {0, 1}
    /\ document_dict \in Documents
    /\ augmented = NoAug

NextAug == DataAugmentation \/ DropAugmented

SpecAug == InitAug /\ [][NextAug]_vars

----------------------------------------------------------------------------
(* Properties *)

Returned == ret.kind = "returned"

Called == ret.kind # "none"

SampleSet == { ret.samples[i] : i \in 1 .. Len(ret.samples) }

ListSet == { list_IDs[i] : i \in 1 .. Len(list_IDs) }

\* low < score <= high, the band as configured
InBand(score, bin) == bin.low < score /\ score <= bin.high

\* C1: when the list has more than one entry and no position of the list is in
\* any of the four widened bands for the anchor, so that the fallback branch
\* ran, the partner it returned differs from the anchor.
C1_FallbackNeverAnchor ==
    \A s \in SampleSet :
        ( /\ Len(list_IDs) > 1
          /\ \A k \in 0 .. 3 : Where(s.ID1, same_prob_bins[s.bin], k) = {}
          /\ s.fallback
          /\ ~s.raised )
        => s.ID2 # s.ID1

\* C2: with ignore_equal_pairs on, a partner picked by the range search is never
\* the anchor, for every list, and the candidate set it was picked from is the
\* set of positions in the widened band less exactly those holding the anchor.
C2_RangeSearchNeverAnchor ==
    ignore_equal_pairs =>
        \A s \in SampleSet :
            ~s.fallback =>
                /\ s.ID2 # s.ID1
                /\ Candidates(s.ID1, same_prob_bins[s.bin], s.attempts - 1)
                      = { p \in Where(s.ID1, same_prob_bins[s.bin], s.attempts - 1) :
                            At(list_IDs, p) # s.ID1 }

\* C3: with ignore_equal_pairs on, when the list holds an identity other than
\* the anchor whose score is in the selected band, the partner is found at the
\* first attempt and its score is in that band.
C3_InBandSelection ==
    ignore_equal_pairs =>
        \A s \in SampleSet :
            (\E c \in ListSet : c # s.ID1 /\ InBand(Score(s.ID1, c), same_prob_bins[s.bin]))
            => /\ ~s.fallback
               /\ s.attempts = 1
               /\ InBand(Score(s.ID1, s.ID2), same_prob_bins[s.bin])

\* C4: a call with a batch index outside [0, batch_count()) raises; it returns
\* no batch.
C4_OutOfRangeRaises ==
    (Called /\ (ret.index < 0 \/ ret.index >= BatchCount)) => ret.kind = "raised"

\* Once constructed, self.indexes is a rearrangement of num_turns copies of
\* the positions of list_IDs.
C5_Tiling ==
    phase = "ready" =>
        /\ Len(indexes) = num_turns * Len(list_IDs)
        /\ \A i \in 1 .. Len(indexes) : indexes[i] \in 0 .. (Len(list_IDs) - 1)
        /\ \A p \in 0 .. (Len(list_IDs) - 1) : Count(indexes, p) = num_turns

\* C5: once constructed, self.indexes has length num_turns * len(list_IDs) and
\* holds every position of list_IDs exactly num_turns times, and a __getitem__
\* call leaves it as it was.
C5_EpochIndexSequence ==
    /\ []C5_Tiling
    /\ [][(ret' # ret) => (indexes' = indexes)]_vars

C5_Witness ==
    /\ Returned
    /\ shuffle
    /\ num_turns = 2
    /\ Len(list_IDs) = 3
    /\ indexes # Tile(Len(list_IDs), num_turns)

\* C6: the array the caller passed as score_array still holds what it held
\* when __init__ was called.
C6_CallerMatrixUntouched == heap["arg"] = passed

\* C7: for the list 0..M-1 in order, the partner the fallback returns is an
\* identity of the list other than the anchor whose score with the anchor is
\* the highest among those.
C7_FallbackBestOther ==
    list_IDs = Range(NumIDs) =>
        \A s \in SampleSet :
            (s.fallback /\ ~s.raised) =>
                /\ s.ID2 # s.ID1
                /\ s.ID2 \in ListSet
                /\ \A c \in ListSet \ {s.ID1} : Score(s.ID1, c) <= Score(s.ID1, s.ID2)

\* The offsets of self.indexes that batch i reads, and those one pass over
\* the batches 0 .. batch_count() - 1 reads.
BatchOffsets(i) == SliceOffsets(Len(indexes), i * batch_size, (i + 1) * batch_size)

PassOffsets == UNION { BatchOffsets(i) : i \in 0 .. (BatchCount - 1) }

\* C8: every batch index below batch_count() reads batch_size consecutive
\* entries of self.indexes, two such indices read disjoint entries, so no
\* position is an anchor more than num_turns times in one pass, and the pass
\* leaves num_turns * len(list_IDs) - batch_count() * batch_size entries unread.
C8_FullDisjointBatches ==
    phase = "ready" =>
        /\ \A i \in 0 .. (BatchCount - 1) :
              BatchOffsets(i) = (i * batch_size) .. ((i + 1) * batch_size - 1)
        /\ \A i, j \in 0 .. (BatchCount - 1) : i # j => BatchOffsets(i) \cap BatchOffsets(j) = {}
        /\ \A p \in 0 .. (Len(list_IDs) - 1) :
              Cardinality({ o \in PassOffsets : At(indexes, o) = p }) <= num_turns
        /\ Cardinality((0 .. (Len(indexes) - 1)) \ PassOffsets)
              = num_turns * Len(list_IDs) - BatchCount * batch_size
        /\ (Called /\ ret.index \in 0 .. (BatchCount - 1)) =>
              /\ ret.offsets = BatchOffsets(ret.index)
              /\ Cardinality(ret.offsets) = batch_size
              /\ Returned => /\ Len(ret.samples) = batch_size
                             /\ \A i \in 1 .. batch_size :
                                   ret.samples[i].pos = At(indexes, ret.index * batch_size + i - 1)

C8_Witness ==
    /\ Returned
    /\ ret.index > 0
    /\ ret.index = BatchCount - 1
    /\ num_turns = 2
    /\ batch_size = 2
    /\ Len(indexes) > BatchCount * batch_size

AugBins == { augmented.idx[i] : i \in 1 .. Len(augmented.idx) }

LowBins ==
    { At(document_dict, p).bin : p \in LowPositions(document_dict, augment_peak_removal.max_intensity) }

DocBins == { document_dict[i].bin : i \in 1 .. Len(document_dict) }

\* C10: with peak removal configured, every bin at or above max_intensity is
\* kept, the kept bins below it are as many distinct bins as the drawn size,
\* none kept twice, and with max_removal = 0 every bin of the input is kept.
C10_PeakRemoval ==
    (augmented.kind = "done" /\ augment_peak_removal.on) =>
        /\ (DocBins \ LowBins) \subseteq AugBins
        /\ AugBins \subseteq DocBins
        /\ Cardinality(AugBins \cap LowBins) = augmented.size
        /\ \A i, j \in 1 .. Len(augmented.idx) : i # j => augmented.idx[i] # augmented.idx[j]
        /\ augment_peak_removal.max_removal = 0 => AugBins = DocBins

=============================================================================
